---- MODULE Spec2Model ----
(***************************************************************************)
(* The script registry and dispatch workflow of src/src/index.ts:          *)
(*   PUT /script/:name   (upload handler, lines 130-217)                   *)
(*   GET /dispatch/:name (dispatch handler, lines 98-125)                  *)
(* A handler is a sequence of steps separated by its awaits, and handler   *)
(* invocations interleave at those awaits.  The dispatch namespace (script *)
(* bodies and tags) and the dispatch_limits table are shared by all        *)
(* invocations.  An optional value (a key a JSON object may lack, a local  *)
(* that may be undefined) is a set with at most one element.               *)
(*                                                                         *)
(* Three specifications:                                                   *)
(*   Spec          NumRequests uploads, interleaved, bodies of CoreBodies  *)
(*   SpecPayload   one upload, every body of Bodies                        *)
(*   SpecDispatch  one dispatch interleaved with one upload                *)
(***************************************************************************)
EXTENDS Integers, FiniteSets, Sequences, TLC

\* ---------------------------------------------------------------- bounds
\* Number of upload requests of a behaviour; each runs the handler once.
NumRequests == 2
\* cpuMs and memory range over 0..MaxLimit (or are absent).
MaxLimit == 1

Requests == 1..NumRequests

\* ------------------------------------------------------------ value sets
Opt(S) == {{}} \cup {{v} : v \in S}
The(S) == CHOOSE v \in S : TRUE

\* request.customer, as attached by WithCustomer: an id and a plan_type.
CustomerRows == {[id |-> "c1", plan_type |-> "basic"], [id |-> "c2", plan_type |-> "pro"]}
CustomerIds == {c.id : c \in CustomerRows}

\* request.params.name
Names == {"n1"}

\* script source texts a customer may send
Contents == {"s1", "s2"}
NoScript == "none"
UndefinedText == "undefined"

\* The request body.  json = {} is a body request.json() cannot parse.
LimitsObjects == [cpuMs : Opt(0..MaxLimit), memory : Opt(0..MaxLimit)]
DispatchConfigs == [limits : Opt(LimitsObjects)]
JsonObjects == [script : Opt(Contents), dispatch_config : Opt(DispatchConfigs)]
Bodies == [json : Opt(JsonObjects)]

NoLimits == [cpuMs |-> {}, memory |-> {}]
\* DispatchLimits: { script_id, cpuMs?, memory? }
Limits(script_id, l) == [script_id |-> script_id, cpuMs |-> l.cpuMs, memory |-> l.memory]
MalformedBody == [json |-> {}]
Body(script, dispatch_config) == [json |-> {[script |-> script, dispatch_config |-> dispatch_config]}]
\* The bodies of the interleaved specification: unparsable, valid without
\* limits, valid with a limit.
CoreBodies ==
  { MalformedBody,
    Body({"s1"}, {[limits |-> {}]}),
    Body({"s2"}, {[limits |-> {[cpuMs |-> {MaxLimit}, memory |-> {}]}]}) }

\* ApiResponse(body, status), JsonResponse(body, status)
Response(body, status) == [status |-> status, body |-> body]
NoResponse == Response("", 0)
ReservedMsg == "Script name already reserved"
CouldNotMsg == "Could not complete request"
ExpectedMsg == "Expected json: { script: string, dispatch_config: { limits?: { cpuMs: number, memory: number }, outbound: string }}"
PlatformMsg == "dispatch namespace API error payload"
SuccessMsg == "Success"
DispatchFailedMsg == "dispatch failed"

CallNames == {"GetTagsOnScript", "PutScriptInDispatchNamespace", "AddDispatchLimits", "PutTagsOnScript"}
NoCalls == [c \in CallNames |-> "none"]

VARIABLES
  scripts,      \* dispatch namespace: script name -> stored text (or NoScript)
  tags,         \* dispatch namespace: script name -> set of tags
  limitsTable,  \* dispatch_limits: script name -> set holding at most one row
  up,           \* upload handler invocations: request -> locals
  dp,           \* the dispatch handler invocation: locals
  uploadedBy,   \* history: script name -> id of the customer whose text is stored
  concurrent    \* history: two upload invocations were in flight together

vars == <<scripts, tags, limitsTable, up, dp, uploadedBy, concurrent>>
stores == <<scripts, tags, limitsTable>>

\* ------------------------------------------------------- initial states
IdleUp ==
  [ pc |-> "idle",
    customer |-> The(CustomerRows),
    scriptName |-> The(Names),
    body |-> MalformedBody,
    tags |-> {},
    scriptContent |-> {},
    limits |-> Limits(The(Names), NoLimits),
    response |-> NoResponse,
    calls |-> NoCalls,
    atStart |-> [tags |-> {}, uploadedBy |-> {}] ]

IdleDp ==
  [ pc |-> "idle",
    scriptName |-> The(Names),
    dispatchLimits |-> {},
    error |-> "none",
    workerResponse |-> NoResponse,
    response |-> NoResponse ]

\* What earlier, non-overlapping uploads leave behind for a name: nothing; a
\* text whose tag write failed; a text tagged with its uploader.
Fresh == [script |-> NoScript, tags |-> {}, uploadedBy |-> {}]
Untagged(c) == [script |-> "s1", tags |-> {}, uploadedBy |-> {c.id}]
Owned(c) == [script |-> "s1", tags |-> {c.id, c.plan_type}, uploadedBy |-> {c.id}]
Quiescent == {Fresh} \cup {Untagged(c) : c \in CustomerRows} \cup {Owned(c) : c \in CustomerRows}

Init ==
  /\ \E q \in [Names -> Quiescent] :
       /\ scripts = [n \in Names |-> q[n].script]
       /\ tags = [n \in Names |-> q[n].tags]
       /\ uploadedBy = [n \in Names |-> q[n].uploadedBy]
  /\ limitsTable = [n \in Names |-> {}]
  /\ up = [r \in Requests |-> IdleUp]
  /\ dp = IdleDp
  /\ concurrent = FALSE

\* ------------------------------------------- adapters (resource.ts, db.ts)
\* What a call does when it succeeds.  A call may also fail and then changes
\* nothing: GetTagsOnScript and the db calls by throwing, the two namespace
\* writes by a response that is not ok (the handlers below).
\* The tags of a script name.
GetTagsOnScript(scriptName) == tags[scriptName]

\* the text the namespace stores for scriptContent
StoredText(scriptContent) == IF scriptContent = {} THEN UndefinedText ELSE The(scriptContent)

\* Create-or-replace of the script body under the name.
PutScriptInDispatchNamespace(scriptName, scriptContent) ==
  [scripts EXCEPT ![scriptName] = StoredText(scriptContent)]

\* One row per script, keyed by script_id.
AddDispatchLimits(limits) == [limitsTable EXCEPT ![limits.script_id] = {limits}]

\* Additive: the tags already on the script stay.
PutTagsOnScript(scriptName, newTags) == [tags EXCEPT ![scriptName] = @ \cup newTags]

\* The limits row of a script name, if there is one.
GetDispatchLimitFromScript(scriptName) == limitsTable[scriptName]

\* ------------------------------------------------------- upload handler
Ended(r) == up[r].pc \in {"responded", "faulted"}
InFlight(r) == up[r].pc \notin {"idle", "responded", "faulted"}

Respond(r, u, body, status) ==
  up' = [up EXCEPT ![r] = [u EXCEPT !.pc = "responded", !.response = Response(body, status)]]

Called(u, call, outcome) == [u EXCEPT !.calls[call] = outcome]

\* line 130: a request PUT /script/:name reaches the handler, customer attached
Receive(r, bodies) ==
  /\ up[r].pc = "idle"
  /\ \E c \in CustomerRows, n \in Names, b \in bodies :
       up' = [up EXCEPT ![r] =
                [IdleUp EXCEPT !.pc = "GetTagsOnScript", !.customer = c, !.scriptName = n, !.body = b,
                               !.atStart = [tags |-> tags[n], uploadedBy |-> uploadedBy[n]]]]
  /\ concurrent' = (concurrent \/ \E q \in Requests \ {r} : InFlight(q))
  /\ UNCHANGED <<stores, dp, uploadedBy>>

\* (mutant) the negation of line 147 dropped: tags.includes(request.customer.id)
Reserved_negationDropped(t, customer) == t # {} /\ customer.id \in t

\* line 147: tags.length > 0 && !tags.includes(request.customer.id)
Reserved(t, customer) == t # {} /\ customer.id \notin t

\* (mutant) line 148 without its return: the 409 is built and dropped
CheckOwnership_noReturn(r) ==
  /\ up[r].pc = "GetTagsOnScript"
  /\ \/ Respond(r, Called(up[r], "GetTagsOnScript", "failed"), CouldNotMsg, 500)
     \/ up' = [up EXCEPT ![r] = [Called(@, "GetTagsOnScript", "ok") EXCEPT
                                   !.tags = GetTagsOnScript(up[r].scriptName), !.pc = "json"]]
  /\ UNCHANGED <<stores, dp, uploadedBy, concurrent>>

\* (mutant) the body is validated first, the ownership check made after it
CheckOwnership_afterParse(r) ==
  /\ up[r].pc = "GetTagsOnScript"
  /\ IF up[r].body.json = {}
       THEN Respond(r, up[r], ExpectedMsg, 400)
       ELSE \/ Respond(r, Called(up[r], "GetTagsOnScript", "failed"), CouldNotMsg, 500)
            \/ LET t == GetTagsOnScript(up[r].scriptName)
                   u == [Called(up[r], "GetTagsOnScript", "ok") EXCEPT !.tags = t]
               IN IF Reserved(t, up[r].customer)
                    THEN Respond(r, u, ReservedMsg, 409)
                    ELSE up' = [up EXCEPT ![r] = [u EXCEPT !.pc = "json"]]
  /\ UNCHANGED <<stores, dp, uploadedBy, concurrent>>

\* lines 145-152: the tag lookup and the ownership check
CheckOwnership(r) ==
  /\ up[r].pc = "GetTagsOnScript"
  /\ \/ Respond(r, Called(up[r], "GetTagsOnScript", "failed"), CouldNotMsg, 500)
     \/ LET t == GetTagsOnScript(up[r].scriptName)
            u == [Called(up[r], "GetTagsOnScript", "ok") EXCEPT !.tags = t]
        IN IF Reserved(t, up[r].customer)
             THEN Respond(r, u, ReservedMsg, 409)
             ELSE up' = [up EXCEPT ![r] = [u EXCEPT !.pc = "json"]]
  /\ UNCHANGED <<stores, dp, uploadedBy, concurrent>>

\* lines 167-176: request.json() resolves and data.script and
\* data.dispatch_config.limits can be read without a TypeError
Readable(body) == body.json # {} /\ \A data \in body.json : data.dispatch_config # {}

\* line 176: { script_id: scriptName, ...data.dispatch_config.limits }
SpreadLimits(scriptName, data) ==
  LET cfg == The(data.dispatch_config)
  IN Limits(scriptName, IF cfg.limits = {} THEN NoLimits ELSE The(cfg.limits))

\* lines 157-180: the body is read and taken apart
ParseBody(r) ==
  /\ up[r].pc = "json"
  /\ IF Readable(up[r].body)
       THEN LET data == The(up[r].body.json)
            IN up' = [up EXCEPT ![r] = [@ EXCEPT !.pc = "PutScriptInDispatchNamespace",
                                                 !.scriptContent = data.script,
                                                 !.limits = SpreadLimits(up[r].scriptName, data)]]
       ELSE Respond(r, up[r], ExpectedMsg, 400)
  /\ UNCHANGED <<stores, dp, uploadedBy, concurrent>>

\* line 195: a number that is neither undefined nor 0
Truthy(x) == \E v \in x : v # 0

\* (mutant) presence tested instead of truthiness
HasLimits_anyPresent(limits) == limits.cpuMs # {} \/ limits.memory # {}

\* line 195: limits.cpuMs || limits.memory
HasLimits(limits) == Truthy(limits.cpuMs) \/ Truthy(limits.memory)

\* lines 187-195: the platform upload and the decision to persist limits
PutScript(r) ==
  /\ up[r].pc = "PutScriptInDispatchNamespace"
  /\ \/ /\ Respond(r, Called(up[r], "PutScriptInDispatchNamespace", "failed"), PlatformMsg, 400)
        /\ UNCHANGED <<scripts, uploadedBy>>
     \/ /\ scripts' = PutScriptInDispatchNamespace(up[r].scriptName, up[r].scriptContent)
        /\ uploadedBy' = [uploadedBy EXCEPT ![up[r].scriptName] = {up[r].customer.id}]
        /\ up' = [up EXCEPT ![r] = [Called(@, "PutScriptInDispatchNamespace", "ok") EXCEPT
                                      !.pc = IF HasLimits(up[r].limits) THEN "AddDispatchLimits"
                                                                        ELSE "PutTagsOnScript"]]
  /\ UNCHANGED <<tags, limitsTable, dp, concurrent>>

\* line 195: await AddDispatchLimits(request.db, limits), outside any try
AddLimits(r) ==
  /\ up[r].pc = "AddDispatchLimits"
  /\ \/ /\ up' = [up EXCEPT ![r] = [Called(@, "AddDispatchLimits", "failed") EXCEPT !.pc = "faulted"]]
        /\ UNCHANGED limitsTable
     \/ /\ limitsTable' = AddDispatchLimits(up[r].limits)
        /\ up' = [up EXCEPT ![r] = [Called(@, "AddDispatchLimits", "ok") EXCEPT !.pc = "PutTagsOnScript"]]
  /\ UNCHANGED <<scripts, tags, dp, uploadedBy, concurrent>>

\* (mutant) the customer id left out of the tags
TagsOf_planOnly(customer) == {customer.plan_type}

\* line 211: [request.customer.id, request.customer.plan_type]
TagsOf(customer) == {customer.id, customer.plan_type}

\* lines 211-216: the tag write; an ok response is followed by the 201 at once
PutTags(r) ==
  /\ up[r].pc = "PutTagsOnScript"
  /\ \/ /\ up' = [up EXCEPT ![r] = [Called(@, "PutTagsOnScript", "failed") EXCEPT !.pc = "tagsResponse.text"]]
        /\ UNCHANGED tags
     \/ /\ tags' = PutTagsOnScript(up[r].scriptName, TagsOf(up[r].customer))
        /\ Respond(r, Called(up[r], "PutTagsOnScript", "ok"), SuccessMsg, 201)
  /\ UNCHANGED <<scripts, limitsTable, dp, uploadedBy, concurrent>>

\* (mutant) a failed tag write deletes the script and is reported
LogTagsFailure_rollback(r) ==
  /\ up[r].pc = "tagsResponse.text"
  /\ scripts' = [scripts EXCEPT ![up[r].scriptName] = NoScript]
  /\ Respond(r, up[r], CouldNotMsg, 500)
  /\ UNCHANGED <<tags, limitsTable, dp, uploadedBy, concurrent>>

\* lines 212-216: the failed tag write is logged, then the 201
LogTagsFailure(r) ==
  /\ up[r].pc = "tagsResponse.text"
  /\ Respond(r, up[r], SuccessMsg, 201)
  /\ UNCHANGED <<stores, dp, uploadedBy, concurrent>>

\* ----------------------------------------------------- dispatch handler
\* handleDispatchError(e)
handleDispatchError(e) == Response(DispatchFailedMsg, 500)

DispatchFailed(d, e) == [d EXCEPT !.pc = "responded", !.error = e, !.response = handleDispatchError(e)]

\* line 98: a request GET /dispatch/:name reaches the handler
ReceiveDispatch ==
  /\ dp.pc \in {"idle", "responded", "faulted"}
  /\ \E n \in Names : dp' = [IdleDp EXCEPT !.pc = "GetDispatchLimitFromScript", !.scriptName = n]
  /\ UNCHANGED <<stores, up, uploadedBy, concurrent>>

\* line 111: the limits row of the name is looked up
GetDispatchLimit ==
  /\ dp.pc = "GetDispatchLimitFromScript"
  /\ \/ dp' = DispatchFailed(dp, "GetDispatchLimitFromScript")
     \/ dp' = [dp EXCEPT !.pc = "GetOutboundWorkerFromScript", !.dispatchLimits = GetDispatchLimitFromScript(dp.scriptName)]
  /\ UNCHANGED <<stores, up, uploadedBy, concurrent>>

\* lines 112-121: the outbound worker is looked up, the lazy handle obtained
\* and fetch called on it
GetOutboundWorker ==
  /\ dp.pc = "GetOutboundWorkerFromScript"
  /\ \/ dp' = DispatchFailed(dp, "GetOutboundWorkerFromScript")
     \/ dp' = [dp EXCEPT !.pc = "worker.fetch"]
  /\ UNCHANGED <<stores, up, uploadedBy, concurrent>>

\* what the script stored under a name answers
WorkerResponse(text) == Response(text, 200)

\* (mutant) line 121 without its catch
WorkerFetch_uncaught ==
  /\ dp.pc = "worker.fetch"
  /\ \/ dp' = [dp EXCEPT !.pc = "faulted",
                          !.error = IF scripts[dp.scriptName] = NoScript THEN "Worker not found" ELSE "execution failed"]
     \/ /\ scripts[dp.scriptName] # NoScript
        /\ LET w == Response(scripts[dp.scriptName], 200)
           IN dp' = [dp EXCEPT !.pc = "responded", !.workerResponse = w, !.response = w]
  /\ UNCHANGED <<stores, up, uploadedBy, concurrent>>

\* line 121: worker.fetch(request).catch(handleDispatchError)
WorkerFetch ==
  /\ dp.pc = "worker.fetch"
  /\ \/ dp' = DispatchFailed(dp, IF scripts[dp.scriptName] = NoScript THEN "Worker not found" ELSE "execution failed")
     \/ /\ scripts[dp.scriptName] # NoScript
        /\ LET w == WorkerResponse(scripts[dp.scriptName])
           IN dp' = [dp EXCEPT !.pc = "responded", !.workerResponse = w, !.response = w]
  /\ UNCHANGED <<stores, up, uploadedBy, concurrent>>

\* -------------------------------------------------------- specifications
Next ==
  \/ \E r \in Requests : Receive(r, CoreBodies)
  \/ \E r \in Requests : CheckOwnership(r)
  \/ \E r \in Requests : ParseBody(r)
  \/ \E r \in Requests : PutScript(r)
  \/ \E r \in Requests : AddLimits(r)
  \/ \E r \in Requests : PutTags(r)
  \/ \E r \in Requests : LogTagsFailure(r)

Spec == Init /\ [][Next]_vars

NextPayload ==
  \/ Receive(1, Bodies)
  \/ CheckOwnership(1)
  \/ ParseBody(1)
  \/ PutScript(1)
  \/ AddLimits(1)
  \/ PutTags(1)
  \/ LogTagsFailure(1)

SpecPayload == Init /\ [][NextPayload]_vars

NextDispatch ==
  \/ Receive(1, CoreBodies)
  \/ CheckOwnership(1)
  \/ ParseBody(1)
  \/ PutScript(1)
  \/ AddLimits(1)
  \/ PutTags(1)
  \/ LogTagsFailure(1)
  \/ ReceiveDispatch
  \/ GetDispatchLimit
  \/ GetOutboundWorker
  \/ WorkerFetch

SpecDispatch == Init /\ [][NextDispatch]_vars

\* ------------------------------------------------------------ properties
\* what a request has asked the namespace and the table to write
NoWrites(u) ==
  /\ u.calls["PutScriptInDispatchNamespace"] = "none"
  /\ u.calls["AddDispatchLimits"] = "none"
  /\ u.calls["PutTagsOnScript"] = "none"

\* the tag lookup returned a non-empty tag set without the requester's id
SawForeignTags(u) ==
  /\ u.calls["GetTagsOnScript"] = "ok"
  /\ u.tags # {}
  /\ u.customer.id \notin u.tags

\* none of the calls the request made failed
NoCallFailed(u) == \A c \in CallNames : u.calls[c] # "failed"

\* the body is JSON with a script and a dispatch_config
ValidBody(b) == b.json # {} /\ \A d \in b.json : d.script # {} /\ d.dispatch_config # {}

\* the body is JSON without a script key
LacksScript(b) == b.json # {} /\ \A d \in b.json : d.script = {}

\* cpuMs and memory as the payload gives them (empty when absent)
PayloadLimits(b) == UNION {cfg.limits : cfg \in UNION {d.dispatch_config : d \in b.json}}
PayloadCpuMs(b) == UNION {l.cpuMs : l \in PayloadLimits(b)}
PayloadMemory(b) == UNION {l.memory : l \in PayloadLimits(b)}

Answered(u, body, status) == u.pc = "responded" /\ u.response = Response(body, status)

\* C1: an upload whose tag lookup returns a non-empty tag set without the
\* requester's id is answered 409 right there, and that request issues no
\* write: no script upload, no dispatch-limits write, no tag write.
C1_ForeignNameRejected ==
  \A r \in Requests :
    SawForeignTags(up[r]) => Answered(up[r], ReservedMsg, 409) /\ NoWrites(up[r])

\* C1 witness: customer A tagged the name in an upload of this behaviour, and
\* customer B's upload of it then read A's tags and was answered 409.
C1_Witness ==
  \E r, q \in Requests :
    /\ SawForeignTags(up[r]) /\ Answered(up[r], ReservedMsg, 409)
    /\ up[q].calls["PutTagsOnScript"] = "ok"
    /\ up[q].scriptName = up[r].scriptName
    /\ up[q].customer.id \in up[r].tags
    /\ up[q].customer.id # up[r].customer.id
    /\ scripts[up[r].scriptName] = StoredText(up[q].scriptContent)

\* the ids of the customers that own a name
Owners(n) == tags[n] \cap CustomerIds

\* C2: as long as no two uploads have been in flight together, a name has at
\* most one owner; the witness is the race, which gives it two.
C2_SerialMutualExclusion ==
  ~concurrent => \A n \in Names : Cardinality(Owners(n)) <= 1

\* C2 witness: two uploads of one unclaimed name by different customers both
\* read the empty tag set, both were answered 201 and both wrote their tags.
C2_DualOwnership ==
  \E r, q \in Requests :
    /\ r # q
    /\ up[r].scriptName = up[q].scriptName
    /\ up[r].customer.id # up[q].customer.id
    /\ \A x \in {r, q} :
         /\ up[x].atStart.tags = {}
         /\ up[x].calls["GetTagsOnScript"] = "ok" /\ up[x].tags = {}
         /\ up[x].calls["PutTagsOnScript"] = "ok"
         /\ Answered(up[x], SuccessMsg, 201)
    /\ {up[r].customer.id, up[q].customer.id} \subseteq tags[up[r].scriptName]

\* C3 as stated: an upload with a valid body of a name whose tag set is empty
\* when the request starts is answered 201, and the uploader then owns it.
C3_Original ==
  \A r \in Requests :
    (Ended(r) /\ up[r].atStart.tags = {} /\ ValidBody(up[r].body))
      => /\ Answered(up[r], SuccessMsg, 201)
         /\ up[r].customer.id \in tags[up[r].scriptName]

\* C3 amended: an upload with a valid body whose tag lookup returns the empty
\* tag set ends with the platform's 400 when the platform rejects the script,
\* in an unhandled fault when the limits write fails, and with 201 otherwise;
\* and when it is answered 201 and its tag write did not fail, the uploader's
\* id is in the name's tag set.
C3_UnclaimedUpload ==
  \A r \in Requests :
    LET u == up[r] IN
    (Ended(r) /\ u.calls["GetTagsOnScript"] = "ok" /\ u.tags = {} /\ ValidBody(u.body))
      => /\ IF u.calls["PutScriptInDispatchNamespace"] = "failed" THEN Answered(u, PlatformMsg, 400)
            ELSE IF u.calls["AddDispatchLimits"] = "failed" THEN u.pc = "faulted"
            ELSE Answered(u, SuccessMsg, 201)
         /\ (Answered(u, SuccessMsg, 201) /\ u.calls["PutTagsOnScript"] # "failed")
              => u.customer.id \in tags[u.scriptName]

\* C3 witness: a name never uploaded before was uploaded, answered 201, and is
\* tagged with its uploader.
C3_Witness ==
  \E r \in Requests :
    /\ up[r].atStart = [tags |-> {}, uploadedBy |-> {}]
    /\ up[r].tags = {} /\ ValidBody(up[r].body)
    /\ Answered(up[r], SuccessMsg, 201)
    /\ up[r].customer.id \in tags[up[r].scriptName]

\* C4 as stated: an upload that passed the ownership check with a JSON body
\* without a script key is answered 400 and writes no script body.
C4_MissingScriptRejected ==
  \A r \in Requests :
    LET u == up[r] IN
    (Ended(r) /\ u.calls["GetTagsOnScript"] = "ok" /\ ~SawForeignTags(u) /\ LacksScript(u.body))
      => u.response.status = 400 /\ u.calls["PutScriptInDispatchNamespace"] # "ok"

\* C5 as stated: a limits write is made iff the platform upload succeeded and
\* cpuMs or memory is present in the payload; the row carries their values.
C5_Original ==
  \A r \in Requests :
    LET u == up[r] IN
    Ended(r)
      => /\ u.calls["AddDispatchLimits"] # "none"
              <=> /\ u.calls["PutScriptInDispatchNamespace"] = "ok"
                  /\ (PayloadCpuMs(u.body) # {} \/ PayloadMemory(u.body) # {})
         /\ u.calls["AddDispatchLimits"] = "ok"
              => limitsTable[u.scriptName] = {[script_id |-> u.scriptName, cpuMs |-> PayloadCpuMs(u.body), memory |-> PayloadMemory(u.body)]}

\* C5 amended: a limits write is made iff the platform upload succeeded and
\* cpuMs or memory is present and not zero in the payload; a write the store
\* accepts leaves a row with the payload's cpuMs and memory (a zero beside a
\* non-zero value included); {cpuMs: 0} alone, like dispatch_config {}, gives
\* no row.
C5_LimitsPersisted ==
  \A r \in Requests :
    LET u == up[r] IN
    Ended(r)
      => /\ u.calls["AddDispatchLimits"] # "none"
              <=> /\ u.calls["PutScriptInDispatchNamespace"] = "ok"
                  /\ \E v \in PayloadCpuMs(u.body) \cup PayloadMemory(u.body) : v # 0
         /\ u.calls["AddDispatchLimits"] = "ok"
              => limitsTable[u.scriptName] = {[script_id |-> u.scriptName, cpuMs |-> PayloadCpuMs(u.body), memory |-> PayloadMemory(u.body)]}
         /\ u.calls["AddDispatchLimits"] # "ok"
              => limitsTable[u.scriptName] = {}

\* C5 witness: a payload with cpuMs 0 and a non-zero memory left a row with both.
C5_Witness ==
  \E r \in Requests :
    /\ Ended(r)
    /\ PayloadCpuMs(up[r].body) = {0}
    /\ PayloadMemory(up[r].body) = {MaxLimit}
    /\ up[r].calls["AddDispatchLimits"] = "ok"
    /\ limitsTable[up[r].scriptName] = {[script_id |-> up[r].scriptName, cpuMs |-> {0}, memory |-> {MaxLimit}]}

\* C6: an upload whose tag write returned a non-ok response is still answered
\* 201 "Success", and what it wrote before stays: the name still has a script
\* body to dispatch to, and the limits row it wrote is still there.
C6_TagFailureNotSurfaced ==
  \A r \in Requests :
    LET u == up[r] IN
    u.calls["PutTagsOnScript"] = "failed"
      => /\ u.pc \in {"tagsResponse.text", "responded"}
         /\ u.pc = "responded" => u.response = Response(SuccessMsg, 201)
         /\ scripts[u.scriptName] # NoScript
         /\ u.calls["AddDispatchLimits"] = "ok" => limitsTable[u.scriptName] # {}

\* C6 witness: the tag write failed, the request was answered 201, its script
\* body and limits row are in place and the name has no tag.
C6_Witness ==
  \E r \in Requests :
    /\ up[r].calls["PutTagsOnScript"] = "failed"
    /\ Answered(up[r], SuccessMsg, 201)
    /\ up[r].calls["AddDispatchLimits"] = "ok"
    /\ scripts[up[r].scriptName] = StoredText(up[r].scriptContent)
    /\ limitsTable[up[r].scriptName] = {up[r].limits}
    /\ tags[up[r].scriptName] = {}

\* C7 as stated: a failed tag lookup and a failed dispatch-limits write both
\* end in a 500 with the generic message, the former with nothing written.
C7_StoreFailureAnswered500 ==
  \A r \in Requests :
    LET u == up[r] IN
    (u.calls["GetTagsOnScript"] = "failed" \/ u.calls["AddDispatchLimits"] = "failed")
      => /\ Answered(u, CouldNotMsg, 500)
         /\ u.calls["GetTagsOnScript"] = "failed" => NoWrites(u)

\* C9: an upload answered 409 "reserved", 400 "expected json" or 500 "could
\* not complete" has issued no script upload, no limits write and no tag
\* write; and the 400 "expected json" is only given after the tag lookup
\* returned tags that do not reserve the name, so a non-owner gets the 409
\* whatever its body.
C9_ErrorsBeforeMutation ==
  \A r \in Requests :
    LET u == up[r] IN
    /\ (Answered(u, ReservedMsg, 409) \/ Answered(u, ExpectedMsg, 400) \/ Answered(u, CouldNotMsg, 500))
         => NoWrites(u)
    /\ Answered(u, ExpectedMsg, 400)
         => u.calls["GetTagsOnScript"] = "ok" /\ ~SawForeignTags(u)
    /\ (SawForeignTags(u) /\ u.body = MalformedBody) => Answered(u, ReservedMsg, 409)

\* C9 witness: a non-owner sent a body that is not JSON and was answered 409.
C9_Witness ==
  \E r \in Requests :
    /\ SawForeignTags(up[r])
    /\ up[r].body = MalformedBody
    /\ Answered(up[r], ReservedMsg, 409)
    /\ NoWrites(up[r])

\* the request arrived at a name holding another customer's body and no tag
FoundUntagged(u) ==
  /\ u.atStart.tags = {}
  /\ u.atStart.uploadedBy # {}
  /\ u.customer.id \notin u.atStart.uploadedBy

\* an upload by the customer whose untagged body u replaced, made after u's tag write
LaterByDisplaced(v, u) ==
  /\ v.scriptName = u.scriptName
  /\ v.customer.id \in u.atStart.uploadedBy
  /\ v.calls["GetTagsOnScript"] = "ok"
  /\ u.customer.id \in v.atStart.tags

DispatchErrors == {"GetDispatchLimitFromScript", "GetOutboundWorkerFromScript", "Worker not found", "execution failed"}

\* the dispatch handler has ended as C8 says it does
DispatchAnswered(d) ==
  /\ d.pc # "faulted"
  /\ d.error \in DispatchErrors \cup {"none"}
  /\ d.error # "none" => d.pc = "responded" /\ d.response = handleDispatchError(d.error)
  /\ (d.pc = "responded" /\ d.error = "none") => d.response = d.workerResponse /\ d.response.status = 200
  /\ (d.pc = "responded" /\ d.error = "none") => d.response.body # NoScript

\* C8: a dispatch never ends in an unhandled fault: a failed limits or
\* outbound lookup, a missing script and a failed forward are all answered
\* with the dispatch error response, a successful forward with the script's
\* own response; a missing limits row is no failure; and no step of the
\* dispatch handler changes the scripts, the tags or the limits table.
C8_DispatchAlwaysAnswers ==
  [][ /\ DispatchAnswered(dp')
      /\ dp' # dp => UNCHANGED stores
      /\ (dp.pc = "worker.fetch" /\ dp'.pc = "responded" /\ scripts[dp.scriptName] = NoScript)
           => dp'.error = "Worker not found"
    ]_vars

\* C8 witness: a name no script was uploaded to was dispatched, after the
\* limits lookup found no row, and answered with the dispatch error response.
C8_Witness ==
  /\ dp.pc = "responded"
  /\ scripts[dp.scriptName] = NoScript
  /\ dp.dispatchLimits = {}
  /\ dp.error = "Worker not found"
  /\ dp.response = handleDispatchError("Worker not found")
  /\ dp.response.status >= 400

====
